---- MODULE Spec2Model ----
(***************************************************************************)
(* A model of unit_model_browser_r04.py: the unit-file parser              *)
(* (parse_units_robust) and the browser window (UnitModelBrowser).         *)
(*                                                                         *)
(* Specifications:                                                         *)
(*   SpecParse        parse_units_robust, statement by statement           *)
(*   SpecFilter       the list pane: search, category, sort, region        *)
(*   Spec             profile switch, reload, region filter, selection     *)
(*   SpecProfile      quick switch and the Settings tab (save_and_load)    *)
(*   SpecViewers      the viewer processes; FairSpecViewers adds the timer *)
(*                                                                         *)
(* A Python str is modelled as a sequence of one-character strings, so     *)
(* that strip, isdigit, int, "in", lower and the format specs are computed *)
(* character by character.  Three characters are written as tokens:        *)
(* "TAB" (U+0009), "SUP2" (U+00B2, SUPERSCRIPT TWO) and "OVERSIZE", which  *)
(* stands for a run of more than 131072 ordinary characters (the csv       *)
(* module's field size limit).  Python's 0-based index i is i+1 here.      *)
(***************************************************************************)
EXTENDS Integers, Sequences, FiniteSets, TLC

\* Bound: the number of lines of a unit file read by the parser.
MaxRows == 4

(***************************************************************************)
(* Python str and int primitives                                           *)
(***************************************************************************)

\* The whitespace str.strip() removes (space and tab among the inputs).
Whitespace == {" ", "TAB"}

AsciiDigits == <<"0", "1", "2", "3", "4", "5", "6", "7", "8", "9">>

IsAsciiDigit(c) == \E d \in 1..10 : AsciiDigits[d] = c

DigitVal(c) == (CHOOSE d \in 1..10 : AsciiDigits[d] = c) - 1

RECURSIVE lstrip(_)
lstrip(s) == IF s # <<>> /\ s[1] \in Whitespace THEN lstrip(Tail(s)) ELSE s

RECURSIVE rstrip(_)
rstrip(s) ==
    IF s # <<>> /\ s[Len(s)] \in Whitespace
    THEN rstrip(SubSeq(s, 1, Len(s) - 1))
    ELSE s

\* str.strip()
strip(s) == rstrip(lstrip(s))

\* str.isdigit(): non-empty and every character has the Unicode digit
\* property, which the ASCII digits and SUPERSCRIPT TWO have.
isdigit(s) ==
    /\ s # <<>>
    /\ \A i \in 1..Len(s) : IsAsciiDigit(s[i]) \/ s[i] = "SUP2"

\* str.startswith(prefix)
startswith(s, prefix) ==
    /\ Len(prefix) <= Len(s)
    /\ SubSeq(s, 1, Len(prefix)) = prefix

\* Python's substring test "sub in s".
contains(sub, s) ==
    \E i \in 0..(Len(s) - Len(sub)) : SubSeq(s, i + 1, i + Len(sub)) = sub

\* The digits of an int() literal once the sign is removed: ASCII digits,
\* single underscores allowed between them.
IntBody(s) ==
    LET t == strip(s)
    IN  IF t # <<>> /\ t[1] \in {"+", "-"} THEN Tail(t) ELSE t

\* int(s) returns (TRUE) or raises ValueError (FALSE).
int_ok(s) ==
    LET b == IntBody(s)
    IN  /\ b # <<>>
        /\ \A i \in 1..Len(b) : IsAsciiDigit(b[i]) \/ b[i] = "_"
        /\ b[1] # "_"
        /\ b[Len(b)] # "_"
        /\ \A i \in 1..(Len(b) - 1) : ~(b[i] = "_" /\ b[i + 1] = "_")

RECURSIVE DecVal(_)
DecVal(b) ==
    IF b = <<>> THEN 0
    ELSE LET c == b[Len(b)]
             r == DecVal(SubSeq(b, 1, Len(b) - 1))
         IN  IF c = "_" THEN r ELSE 10 * r + DigitVal(c)

\* The value of int(s) when int_ok(s).
int(s) ==
    LET t == strip(s)
    IN  IF t[1] = "-" THEN 0 - DecVal(IntBody(s)) ELSE DecVal(IntBody(s))

(***************************************************************************)
(* csv.reader                                                              *)
(***************************************************************************)

RECURSIVE split(_, _)
split(s, sep) ==
    IF \A i \in 1..Len(s) : s[i] # sep THEN <<s>>
    ELSE LET k == CHOOSE i \in 1..Len(s) :
                      s[i] = sep /\ \A j \in 1..(i - 1) : s[j] # sep
         IN  <<SubSeq(s, 1, k - 1)>> \o split(SubSeq(s, k + 1, Len(s)), sep)

\* The row csv.reader yields for one line (its line ending removed) that
\* holds no quote character: no fields for an empty line, else the
\* comma-separated fields.
csv_row(line) == IF line = <<>> THEN <<>> ELSE split(line, ",")

\* csv.reader raises csv.Error ("field larger than field limit") instead of
\* yielding a row.
csv_error(line) == \E i \in 1..Len(line) : line[i] = "OVERSIZE"

(***************************************************************************)
(* parse_units_robust                                                      *)
(***************************************************************************)

Marker == <<"&", "&", "U", "N", "I", "T", "S">>

\* The dataclass SimpleUnit, built positionally as the parser does.
SimpleUnit(unit_id, name, pic, u_class, category, regions) ==
    [id |-> unit_id, name |-> name, picnum |-> pic, unit_class |-> u_class,
     category |-> category, regions |-> regions]

\* Category with the land tier ending below 6.
CategoryLtSix(u_class) ==
    IF u_class < 6 THEN "land"
    ELSE IF u_class <= 12 THEN "air"
    ELSE "naval"

Category(u_class) ==
    IF u_class <= 6 THEN "land"
    ELSE IF u_class <= 12 THEN "air"
    ELSE "naval"

\* The try block of the loop body raises ValueError.
RowValueError(row) ==
    \/ ~int_ok(row[1])
    \/ strip(row[3]) # <<>> /\ ~int_ok(strip(row[3]))
    \/ strip(row[4]) # <<>> /\ ~int_ok(strip(row[4]))

\* RowUnit with picnum and class code passed in each other's place.
RowUnitSwapped(row) ==
    LET unit_id == int(row[1])
        name    == strip(row[2])
        u_class == IF strip(row[3]) # <<>> THEN int(strip(row[3])) ELSE 0
        pic     == IF strip(row[4]) # <<>> THEN int(strip(row[4])) ELSE 0
        regions == IF Len(row) > 12 THEN strip(row[13]) ELSE <<>>
    IN  SimpleUnit(unit_id, name, u_class, pic, Category(u_class), regions)

\* The record the try block appends.
RowUnit(row) ==
    LET unit_id == int(row[1])
        name    == strip(row[2])
        u_class == IF strip(row[3]) # <<>> THEN int(strip(row[3])) ELSE 0
        pic     == IF strip(row[4]) # <<>> THEN int(strip(row[4])) ELSE 0
        regions == IF Len(row) > 12 THEN strip(row[13]) ELSE <<>>
    IN  SimpleUnit(unit_id, name, pic, u_class, Category(u_class), regions)

\* ParseRow without "if not start_parsing: continue".
ParseRowNoMarkerGate(st, row) ==
    IF row = <<>> THEN st
    ELSE IF contains(Marker, row[1]) THEN [st EXCEPT !.start_parsing = TRUE]
    ELSE IF Len(row) < 4 THEN st
    ELSE IF \/ startswith(strip(row[1]), <<"/", "/">>)
            \/ ~isdigit(strip(row[1])) THEN st
    ELSE IF RowValueError(row) THEN st
    ELSE [st EXCEPT !.units = Append(@, RowUnit(row))]

\* ParseRow skipping only the // comments, without the isdigit test.
ParseRowNoDigitGate(st, row) ==
    IF row = <<>> THEN st
    ELSE IF contains(Marker, row[1]) THEN [st EXCEPT !.start_parsing = TRUE]
    ELSE IF ~st.start_parsing THEN st
    ELSE IF Len(row) < 4 THEN st
    ELSE IF startswith(strip(row[1]), <<"/", "/">>) THEN st
    ELSE IF RowValueError(row) THEN st
    ELSE [st EXCEPT !.units = Append(@, RowUnit(row))]

\* ParseRow dropping a row whose id a record already carries.
ParseRowDedup(st, row) ==
    IF row = <<>> THEN st
    ELSE IF contains(Marker, row[1]) THEN [st EXCEPT !.start_parsing = TRUE]
    ELSE IF ~st.start_parsing THEN st
    ELSE IF Len(row) < 4 THEN st
    ELSE IF \/ startswith(strip(row[1]), <<"/", "/">>)
            \/ ~isdigit(strip(row[1])) THEN st
    ELSE IF RowValueError(row) THEN st
    ELSE IF \E k \in 1..Len(st.units) : st.units[k].id = RowUnit(row).id
         THEN st
    ELSE [st EXCEPT !.units = Append(@, RowUnit(row))]

\* One iteration of "for row in reader" on the locals start_parsing, units.
ParseRow(st, row) ==
    IF row = <<>> THEN st
    ELSE IF contains(Marker, row[1]) THEN [st EXCEPT !.start_parsing = TRUE]
    ELSE IF ~st.start_parsing THEN st
    ELSE IF Len(row) < 4 THEN st
    ELSE IF \/ startswith(strip(row[1]), <<"/", "/">>)
            \/ ~isdigit(strip(row[1])) THEN st
    ELSE IF RowValueError(row) THEN st
    ELSE [st EXCEPT !.units = Append(@, RowUnit(row))]

\* parse_units_robust(filepath) as a function of the file: file.state is
\* "missing" (os.path.exists is false), "unreadable" (it exists and open()
\* raises) or "present", and file.lines are its lines.
RECURSIVE ParseLines(_, _)
ParseLines(st, ls) ==
    IF ls = <<>> THEN st.units
    ELSE IF csv_error(Head(ls)) THEN st.units
    ELSE ParseLines(ParseRow(st, csv_row(Head(ls))), Tail(ls))

parse_units_robust(file) ==
    IF file.state # "present" THEN <<>>
    ELSE ParseLines([start_parsing |-> FALSE, units |-> <<>>], file.lines)

(***************************************************************************)
(* More of Python's str: ordering, lower(), str(int), format(int, "03d")   *)
(***************************************************************************)

UpperCase ==
    <<"A", "B", "C", "D", "E", "F", "G", "H", "I", "J", "K", "L", "M", "N",
      "O", "P", "Q", "R", "S", "T", "U", "V", "W", "X", "Y", "Z">>

LowerCase ==
    <<"a", "b", "c", "d", "e", "f", "g", "h", "i", "j", "k", "l", "m", "n",
      "o", "p", "q", "r", "s", "t", "u", "v", "w", "x", "y", "z">>

\* The characters of the inputs in code point order (TAB 9, space 32,
\* ... "z" 122, SUPERSCRIPT TWO 178); str comparison is by code point.
CodePointOrder ==
    <<"TAB", " ", "#", "&", "*", "+", ",", "-", ".", "/">> \o AsciiDigits
        \o <<"@">> \o UpperCase \o <<"_">> \o LowerCase \o <<"SUP2">>

\* ord(c), up to an order-preserving renumbering.
Ord(c) == CHOOSE i \in 1..Len(CodePointOrder) : CodePointOrder[i] = c

\* str.lower()
lower(s) ==
    [i \in 1..Len(s) |->
        IF \E k \in 1..26 : UpperCase[k] = s[i]
        THEN LowerCase[CHOOSE k \in 1..26 : UpperCase[k] = s[i]]
        ELSE s[i]]

RECURSIVE Digits(_)
Digits(n) ==
    IF n < 10 THEN <<AsciiDigits[n + 1]>>
    ELSE Digits(n \div 10) \o <<AsciiDigits[(n % 10) + 1]>>

\* str(n)
str(n) == IF n < 0 THEN <<"-">> \o Digits(0 - n) ELSE Digits(n)

RECURSIVE ZeroPad(_, _)
ZeroPad(s, width) == IF Len(s) >= width THEN s ELSE ZeroPad(<<"0">> \o s, width)

\* f"{n:03d}": zero-padded to a width of 3, the sign counted in the width.
fmt03d(n) ==
    IF n < 0 THEN <<"-">> \o ZeroPad(Digits(0 - n), 2)
    ELSE ZeroPad(Digits(n), 3)

\* Lexicographic "<" on sequences of integers (tuple and str comparison).
RECURSIVE LexLess(_, _)
LexLess(a, b) ==
    IF b = <<>> THEN FALSE
    ELSE IF a = <<>> THEN TRUE
    ELSE IF Head(a) # Head(b) THEN Head(a) < Head(b)
    ELSE LexLess(Tail(a), Tail(b))

\* The code points of a str.
Codes(s) == [i \in 1..Len(s) |-> Ord(s[i])]

(***************************************************************************)
(* UnitModelBrowser: tables                                                *)
(***************************************************************************)

\* Python's None, written as a one-token sequence no str is equal to.
None == <<"None">>

\* The code "CUSTOM" of the Custom... entry.
CUSTOM == <<"C", "U", "S", "T", "O", "M">>

\* The region tables: <<label, code>>.  The separator labels start with two
\* box-drawing dashes in the source, written "--" here.
REGIONS_SR2030 ==
    <<
      <<"All Regions", None>>,
      <<"*/@ (Global/Export)", <<"*">>>>,
      <<"-- UPPERCASE --", None>>,
      <<"A (South Africa)", <<"A">>>>,
      <<"B (Argentina)", <<"B">>>>,
      <<"C (China)", <<"C">>>>,
      <<"D (Netherlands)", <<"D">>>>,
      <<"E (Europe/Ireland)", <<"E">>>>,
      <<"F (France)", <<"F">>>>,
      <<"G (Germany)", <<"G">>>>,
      <<"H (Italy)", <<"H">>>>,
      <<"I (Israel)", <<"I">>>>,
      <<"J (Japan)", <<"J">>>>,
      <<"K (South Korea)", <<"K">>>>,
      <<"L (North Korea)", <<"L">>>>,
      <<"M (UK/British)", <<"M">>>>,
      <<"N (Canada)", <<"N">>>>,
      <<"O (Other)", <<"O">>>>,
      <<"P (Philippines)", <<"P">>>>,
      <<"Q (India)", <<"Q">>>>,
      <<"R (Russia)", <<"R">>>>,
      <<"S (Sweden)", <<"S">>>>,
      <<"T (Czech)", <<"T">>>>,
      <<"U (USA)", <<"U">>>>,
      <<"V (Taiwan)", <<"V">>>>,
      <<"W (World Export)", <<"W">>>>,
      <<"X (Balkans/Yugoslavia)", <<"X">>>>,
      <<"Y (Singapore)", <<"Y">>>>,
      <<"Z (Arab)", <<"Z">>>>,
      <<"-- LOWERCASE --", None>>,
      <<"a (Austria)", <<"a">>>>,
      <<"b (Brazil)", <<"b">>>>,
      <<"c (Belgium)", <<"c">>>>,
      <<"d (Denmark)", <<"d">>>>,
      <<"e (Spain)", <<"e">>>>,
      <<"f (Finland)", <<"f">>>>,
      <<"g (Greece)", <<"g">>>>,
      <<"h (Poland)", <<"h">>>>,
      <<"i (Iran)", <<"i">>>>,
      <<"j (Romania)", <<"j">>>>,
      <<"k (Norway)", <<"k">>>>,
      <<"l (Indonesia)", <<"l">>>>,
      <<"m (Pakistan)", <<"m">>>>,
      <<"n (Australia)", <<"n">>>>,
      <<"o (E. Europe Generic)", <<"o">>>>,
      <<"p (Portugal)", <<"p">>>>,
      <<"q (Iraq)", <<"q">>>>,
      <<"r (Former Soviet/Belarus)", <<"r">>>>,
      <<"s (Switzerland)", <<"s">>>>,
      <<"t (Turkey)", <<"t">>>>,
      <<"u (Ukraine)", <<"u">>>>,
      <<"v (Oceania/Pacific)", <<"v">>>>,
      <<"w (Sub-Saharan Africa)", <<"w">>>>,
      <<"x (SE Asia Generic)", <<"x">>>>,
      <<"z (New Zealand)", <<"z">>>>,
      <<"-- OTHER --", None>>,
      <<"Custom...", CUSTOM>>
    >>

REGIONS_SRU ==
    <<
      <<"All Regions", None>>,
      <<"*/@ (Global/Export)", <<"*">>>>,
      <<"A (South Africa)", <<"A">>>>,
      <<"B (Brazil/Argentina)", <<"B">>>>,
      <<"C (China)", <<"C">>>>,
      <<"D (BeNeLux)", <<"D">>>>,
      <<"E (Europe/Ireland/Spain/Portugal/Turkey/Greece)", <<"E">>>>,
      <<"F (France)", <<"F">>>>,
      <<"G (Germany)", <<"G">>>>,
      <<"H (Italy)", <<"H">>>>,
      <<"I (Israel)", <<"I">>>>,
      <<"J (Japan)", <<"J">>>>,
      <<"K (South Korea)", <<"K">>>>,
      <<"L (North Korea)", <<"L">>>>,
      <<"M (UK/British)", <<"M">>>>,
      <<"N (Canada/Australia)", <<"N">>>>,
      <<"O (Other)", <<"O">>>>,
      <<"Q (India)", <<"Q">>>>,
      <<"R (Russia/Ukraine/Soviet/Belarus)", <<"R">>>>,
      <<"S (Sweden/Swiss/Denmark/Norway)", <<"S">>>>,
      <<"T (Czech/Austria/Yugoslavia/Finland/Poland/Romania)", <<"T">>>>,
      <<"U (USA)", <<"U">>>>,
      <<"V (Taiwan/Philippines)", <<"V">>>>,
      <<"W (World Export)", <<"W">>>>,
      <<"X (Yugoslav)", <<"X">>>>,
      <<"Y (Pacific/Singapore)", <<"Y">>>>,
      <<"Z (Arab/Iran/Iraq/Pakistan)", <<"Z">>>>,
      <<"-- OTHER --", None>>,
      <<"Custom...", CUSTOM>>
    >>

\* label.startswith(the two dashes), over the labels of the tables.
IsSeparator(label) ==
    label \in {"-- UPPERCASE --", "-- LOWERCASE --", "-- OTHER --"}

\* self.REGIONS_SRU if self.current_mode == "SRU" else self.REGIONS_SR2030
RegionsOf(mode) == IF mode = "SRU" THEN REGIONS_SRU ELSE REGIONS_SR2030

\* cat_combo's items and their lower().
CatItems == {"All", "Land", "Air", "Naval"}

CatLower(text) ==
    CASE text = "All" -> "all"
      [] text = "Land" -> "land"
      [] text = "Air" -> "air"
      [] text = "Naval" -> "naval"

\* sort_combo's items ("ID (up)" and "ID (down)" carry arrows in the source).
SortItems ==
    {"ID (up)", "ID (down)", "Name A-Z", "Name Z-A", "Class", "Picnum"}

(***************************************************************************)
(* UnitModelBrowser.filter_list: region code, filter, sort                 *)
(***************************************************************************)

\* The loop "for label, code in regions: if label == region_filter: ...
\* break": the code of the first entry with that label, None without one.
RegionEntryCode(regions, region_filter) ==
    LET hits == {i \in 1..Len(regions) : regions[i][1] = region_filter}
    IN  IF hits = {} THEN None
        ELSE regions[CHOOSE i \in hits : \A j \in hits : i <= j][2]

\* RegionKeeps with the codes compared for equality with region_codes.
RegionKeepsExact(region_code, regions) ==
    IF region_code # None /\ region_code # <<>>
    THEN IF region_code = <<"*">>
         THEN ~(regions # <<"*">> /\ regions # <<"@">>)
         ELSE ~(/\ region_code # regions
                /\ regions # <<"*">>
                /\ regions # <<"@">>)
    ELSE TRUE

\* The region test of the filter loop: FALSE where the loop continues.
RegionKeeps(region_code, regions) ==
    IF region_code # None /\ region_code # <<>>
    THEN IF region_code = <<"*">>
         THEN ~(~contains(<<"*">>, regions) /\ ~contains(<<"@">>, regions))
         ELSE ~(/\ ~contains(region_code, regions)
                /\ ~contains(<<"*">>, regions)
                /\ ~contains(<<"@">>, regions))
    ELSE TRUE

\* Keeps with the three tests joined by "or": a unit is kept when it passes
\* any one of them.
KeepsAny(u, cat, txt, region_code) ==
    \/ cat = "all" \/ u.category = cat
    \/ txt = <<>> \/ contains(txt, lower(u.name)) \/ contains(txt, str(u.id))
    \/ RegionKeeps(region_code, u.regions)

\* The body of "for u in self.units": TRUE where u is appended to filtered.
Keeps(u, cat, txt, region_code) ==
    IF cat # "all" /\ u.category # cat THEN FALSE
    ELSE IF /\ txt # <<>>
            /\ ~contains(txt, lower(u.name))
            /\ ~contains(txt, str(u.id)) THEN FALSE
    ELSE RegionKeeps(region_code, u.regions)

FilterUnits(units, cat, txt, region_code) ==
    LET Test(u) == Keeps(u, cat, txt, region_code)
    IN  SelectSeq(units, Test)

\* SortKey with the names compared as written, not lower-cased.
SortKeyCased(u, sort_mode) ==
    CASE sort_mode \in {"ID (up)", "ID (down)"} -> <<u.id>>
      [] sort_mode \in {"Name A-Z", "Name Z-A"} -> Codes(u.name)
      [] sort_mode = "Class" -> <<u.unit_class>> \o Codes(u.name)
      [] sort_mode = "Picnum" -> <<u.picnum>>

\* The sort key of each mode, as a sequence of integers.
SortKey(u, sort_mode) ==
    CASE sort_mode \in {"ID (up)", "ID (down)"} -> <<u.id>>
      [] sort_mode \in {"Name A-Z", "Name Z-A"} -> Codes(lower(u.name))
      [] sort_mode = "Class" -> <<u.unit_class>> \o Codes(lower(u.name))
      [] sort_mode = "Picnum" -> <<u.picnum>>

\* list.sort(key=..., reverse=...): stable, also when reversed.
RECURSIVE StableSort(_, _, _)
StableSort(s, sort_mode, reverse) ==
    IF s = <<>> THEN <<>>
    ELSE LET init == StableSort(SubSeq(s, 1, Len(s) - 1), sort_mode, reverse)
             x    == s[Len(s)]
             kx   == SortKey(x, sort_mode)
             n    == Cardinality(
                         {i \in 1..Len(init) :
                             IF reverse
                             THEN ~LexLess(SortKey(init[i], sort_mode), kx)
                             ELSE ~LexLess(kx, SortKey(init[i], sort_mode))})
         IN  SubSeq(init, 1, n) \o <<x>> \o SubSeq(init, n + 1, Len(init))

SortUnits(filtered, sort_mode) ==
    StableSort(filtered, sort_mode, sort_mode \in {"ID (down)", "Name Z-A"})

(***************************************************************************)
(* UnitModelBrowser.on_selection_changed, check_textures,                  *)
(* show_shared_mesh_info                                                   *)
(***************************************************************************)

EXT_X == <<".", "x">>
EXT_CMO == <<".", "c", "m", "o">>
EXT_DDS == <<".", "d", "d", "s">>
EXT_PNG == <<".", "p", "n", "g">>

\* ".x" if is_sru else ".cmo"
PrimaryExt(mode) == IF mode = "SRU" THEN EXT_X ELSE EXT_CMO

\* ".cmo" if is_sru else ".x"
SecondaryExt(mode) == IF mode = "SRU" THEN EXT_CMO ELSE EXT_X

\* f"UNIT{picnum:03d}"
Stem(picnum) == <<"U", "N", "I", "T">> \o fmt03d(picnum)

\* Path.exists() of dir / name: dir is a directory's state
\* [exists, files].
PathExists(dir, name) == dir.exists /\ name \in dir.files

\* No path (None); a path is <<directory, file name>>.
NoPath == <<>>

\* MeshProbe looking at the secondary extension first.
MeshProbeSecondaryFirst(mode, mesh_dir, dir, picnum) ==
    LET primary   == Stem(picnum) \o PrimaryExt(mode)
        secondary == Stem(picnum) \o SecondaryExt(mode)
    IN  IF PathExists(dir, secondary)
        THEN [status |-> "ALT FORMAT FOUND", lbl_mesh_file |-> secondary,
              btn_view |-> TRUE, final_path |-> <<mesh_dir, secondary>>]
        ELSE IF PathExists(dir, primary)
        THEN [status |-> "MESH FOUND", lbl_mesh_file |-> primary,
              btn_view |-> TRUE, final_path |-> <<mesh_dir, primary>>]
        ELSE [status |-> "MESH MISSING", lbl_mesh_file |-> primary,
              btn_view |-> FALSE, final_path |-> NoPath]

\* The mesh probe of on_selection_changed: status text, file label, button
\* state and final_path.
MeshProbe(mode, mesh_dir, dir, picnum) ==
    LET primary   == Stem(picnum) \o PrimaryExt(mode)
        secondary == Stem(picnum) \o SecondaryExt(mode)
    IN  IF PathExists(dir, primary)
        THEN [status |-> "MESH FOUND", lbl_mesh_file |-> primary,
              btn_view |-> TRUE, final_path |-> <<mesh_dir, primary>>]
        ELSE IF PathExists(dir, secondary)
        THEN [status |-> "ALT FORMAT FOUND", lbl_mesh_file |-> secondary,
              btn_view |-> TRUE, final_path |-> <<mesh_dir, secondary>>]
        ELSE [status |-> "MESH MISSING", lbl_mesh_file |-> primary,
              btn_view |-> FALSE, final_path |-> NoPath]

\* The texture file names check_textures probes, in order.
RECURSIVE RegionalPatterns(_, _)
RegionalPatterns(base, k) ==
    IF k > 26 THEN <<>>
    ELSE <<base \o <<UpperCase[k]>> \o EXT_DDS,
           base \o <<UpperCase[k]>> \o EXT_PNG>>
         \o RegionalPatterns(base, k + 1)

\* TexturePatterns with the lowercase letters probed as well.
TexturePatternsAnyCase(picnum) ==
    <<Stem(picnum) \o EXT_DDS, Stem(picnum) \o EXT_PNG>>
        \o RegionalPatterns(Stem(picnum), 1)
        \o [i \in 1..26 |-> Stem(picnum) \o <<LowerCase[i]>> \o EXT_DDS]

TexturePatterns(picnum) ==
    <<Stem(picnum) \o EXT_DDS, Stem(picnum) \o EXT_PNG>>
        \o RegionalPatterns(Stem(picnum), 1)

\* check_textures: what it writes to txt_textures.
check_textures(dir, picnum) ==
    IF ~dir.exists THEN [kind |-> "folder not found", found |-> <<>>]
    ELSE LET Present(p) == PathExists(dir, p)
             found == SelectSeq(TexturePatterns(picnum), Present)
         IN  IF found # <<>> THEN [kind |-> "found", found |-> found]
             ELSE [kind |-> "no textures", found |-> <<>>]

\* show_shared_mesh_info: the other units with this picnum, the first 10
\* of them listed.
SharedMesh(units, picnum, current_id) ==
    LET Other(u) == u.picnum = picnum /\ u.id # current_id
        shared == SelectSeq(units, Other)
    IN  [count |-> Len(shared),
         listed |-> SubSeq(shared, 1, IF Len(shared) > 10 THEN 10
                                        ELSE Len(shared))]

\* The text of lbl_regions.
RegionsLabel(regions) ==
    IF regions = <<>> \/ regions \in {<<"*">>, <<"@">>, <<"*", "@">>, <<"@", "*">>}
    THEN <<"*", " ", "(", "G", "l", "o", "b", "a", "l", "/", "E", "x", "p", "o",
           "r", "t", ")">>
    ELSE regions

(***************************************************************************)
(* The unit-file lines the parser is run on                                *)
(***************************************************************************)

\* #&&UNITS
L_marker == <<"#", "&", "&", "U", "N", "I", "T", "S">>
\* 42,TestUnit,3,450,,,,,,,,,G
L_example ==
    <<"4", "2", ",", "T", "e", "s", "t", "U", "n", "i", "t", ",", "3", ",",
      "4", "5", "0", ",", ",", ",", ",", ",", ",", ",", ",", ",", "G">>
\* 42, ,13,-5
L_dup == <<"4", "2", ",", " ", ",", "1", "3", ",", "-", "5">>
\* " 7 ,b, ,,,,,,,,,, * ": 13 fields, blank class and picnum
L_pad ==
    <<" ", "7", " ", ",", "b", ",", " ", ",", ",", ",", ",", ",", ",", ",",
      ",", ",", ",", " ", "*", " ">>
\* 3,B,x,7
L_badint == <<"3", ",", "B", ",", "x", ",", "7">>
\* //c,a,6,7
L_comment == <<"/", "/", "c", ",", "a", ",", "6", ",", "7">>
\* -7,n,6,2
L_signed == <<"-", "7", ",", "n", ",", "6", ",", "2">>
\* " ,a,1,2"
L_blank == <<" ", ",", "a", ",", "1", ",", "2">>
\* 5,N,6
L_short == <<"5", ",", "N", ",", "6">>
\* (U+00B2),S,1,1
L_sup2 == <<"SUP2", ",", "S", ",", "1", ",", "1">>
\* 6,L,6,1000
L_six == <<"6", ",", "L", ",", "6", ",", "1", "0", "0", "0">>
\* 9,<a field of more than 131072 characters>
L_oversize == <<"9", ",", "OVERSIZE">>
\* the empty line
L_empty == <<>>

Lines ==
    {L_marker, L_example, L_dup, L_pad, L_badint, L_comment, L_signed,
     L_short, L_six, L_oversize}

Files == UNION {[1..n -> Lines] : n \in 0..MaxRows}

(***************************************************************************)
(* The window's surroundings: config.json and the disk                     *)
(***************************************************************************)

Modes == {"SR2030", "SRU"}

\* ConfigManager.DEFAULTS (the paths written without the Steam prefix).
DEFAULTS ==
    [mode   |-> "SR2030",
     SRU    |-> [unit_file   |-> "Supreme Ruler Ultimate/Maps/DATA/default.unit",
                 meshes_path |-> "Supreme Ruler Ultimate/Graphics/Meshes",
                 viewer_path |-> "mview.exe"],
     SR2030 |-> [unit_file   |-> "Supreme Ruler 2030/Maps/DATA/default.unit",
                 meshes_path |-> "Supreme Ruler 2030/Graphics/Meshes",
                 viewer_path |-> "DirectXTKModelViewer.exe"]]

\* ConfigManager.get_game_config
get_game_config(data, mode) ==
    IF mode \in DOMAIN data THEN data[mode] ELSE DEFAULTS["SR2030"]

\* ConfigManager.set_mode
set_mode(data, mode) == [data EXCEPT !.mode = mode]

\* 2,Bravo,3,7,,,,,,,,,G
L_bravo ==
    <<"2", ",", "B", "r", "a", "v", "o", ",", "3", ",", "7", ",", ",", ",",
      ",", ",", ",", ",", ",", ",", "G">>
\* 1,alpha,7,7,,,,,,,,,*
L_alpha ==
    <<"1", ",", "a", "l", "p", "h", "a", ",", "7", ",", "7", ",", ",", ",",
      ",", ",", ",", ",", ",", ",", "*">>
\* 42,TestUnit,13,450,,,,,,,,,gU
L_test ==
    <<"4", "2", ",", "T", "e", "s", "t", "U", "n", "i", "t", ",", "1", "3",
      ",", "4", "5", "0", ",", ",", ",", ",", ",", ",", ",", ",", ",", "g",
      "U">>
\* 5,b,3,-5
L_b == <<"5", ",", "b", ",", "3", ",", "-", "5">>
\* 3,Tank,3,1000,,,,,,,,,@
L_tank ==
    <<"3", ",", "T", "a", "n", "k", ",", "3", ",", "1", "0", "0", "0", ",",
      ",", ",", ",", ",", ",", ",", ",", ",", "@">>
\* 1,alpha,7,7,,,,,,,,,U
L_alphaU ==
    <<"1", ",", "a", "l", "p", "h", "a", ",", "7", ",", "7", ",", ",", ",",
      ",", ",", ",", ",", ",", ",", "U">>

\* The unit file of the SR2030 profile, and the two states of the SRU
\* profile's.
UnitFile2030 ==
    [state |-> "present",
     lines |-> <<L_blank, L_marker, L_bravo, L_alpha, L_test, L_b>>]

UnitFileSRU ==
    [state |-> "present",
     lines |-> <<L_marker, L_empty, L_sup2, L_tank, L_alphaU>>]

NoFile == [state |-> "missing", lines |-> <<>>]

UnitFiles ==
    {[SR2030 |-> UnitFile2030, SRU |-> f] : f \in {UnitFileSRU, NoFile}}

\* Mesh file names.
UNIT007_x == Stem(7) \o EXT_X
UNIT007_cmo == Stem(7) \o EXT_CMO
UNIT450_cmo == Stem(450) \o EXT_CMO
UNIT1000_x == Stem(1000) \o EXT_X

\* States of a meshes directory: absent, holding only UNIT007.cmo, holding
\* only .x meshes, holding both formats and textures.
DirGone == [exists |-> FALSE, files |-> {}]

DirCmo == [exists |-> TRUE, files |-> {UNIT007_cmo}]

DirX == [exists |-> TRUE, files |-> {UNIT007_x, UNIT1000_x}]

DirBoth ==
    [exists |-> TRUE,
     files  |-> {UNIT007_x, UNIT007_cmo, UNIT450_cmo, UNIT1000_x,
                 Stem(7) \o EXT_DDS,
                 Stem(7) \o <<"G">> \o EXT_PNG,
                 Stem(7) \o <<"g">> \o EXT_DDS,
                 Stem(7) \o <<".", "j", "p", "g">>,
                 Stem(450) \o <<"Z">> \o EXT_DDS}]

MeshDirs ==
    {[SR2030 |-> DirCmo,  SRU |-> DirCmo],
     [SR2030 |-> DirX,    SRU |-> DirBoth],
     [SR2030 |-> DirBoth, SRU |-> DirGone],
     [SR2030 |-> DirGone, SRU |-> DirX]}

\* The disk: the file or directory at each path of the configuration, and
\* the viewer executables that exist.
Disks ==
    {[files |-> (DEFAULTS["SR2030"].unit_file :> uf["SR2030"])
                    @@ (DEFAULTS["SRU"].unit_file :> uf["SRU"]),
      dirs  |-> (DEFAULTS["SR2030"].meshes_path :> md["SR2030"])
                    @@ (DEFAULTS["SRU"].meshes_path :> md["SRU"]),
      exes  |-> {DEFAULTS[mode].viewer_path : mode \in Modes}] :
        uf \in UnitFiles, md \in MeshDirs}

\* os.path.exists(path) for a unit file.
FileExists(d, path) ==
    path \in DOMAIN d.files /\ d.files[path].state # "missing"

\* The state of the directory at a path.
DirAt(d, path) == IF path \in DOMAIN d.dirs THEN d.dirs[path] ELSE DirGone

\* What the user types in the search box, and answers to the Custom
\* Region dialog.
SearchTexts == {<<>>, <<"A">>, <<"4">>}

NoAnswer == [ok |-> FALSE, text |-> <<>>]

CustomAnswers ==
    {NoAnswer,
     [ok |-> TRUE, text |-> <<"g", "U">>],
     [ok |-> TRUE, text |-> <<"@">>]}

\* The region entries the user picks.
RegionPicks ==
    {"All Regions", "*/@ (Global/Export)", "G (Germany)", "U (USA)",
     "g (Greece)", "Custom..."}

(***************************************************************************)
(* UnitModelBrowser: the handlers, as functions of the window's state      *)
(*                                                                         *)
(* A window state S is [current_mode, config, units, selected_mesh_path,   *)
(* ui, last_filter]; ui holds the widgets' contents and last_filter is     *)
(* history: the locals of the last filter_list call that reached the       *)
(* filter loop.                                                            *)
(***************************************************************************)

Dash == <<"-">>

\* str.title() of a category.
Title(category) ==
    CASE category = "land" -> <<"L", "a", "n", "d">>
      [] category = "air" -> <<"A", "i", "r">>
      [] category = "naval" -> <<"N", "a", "v", "a", "l">>

\* The combo_mode item of a mode (sync_combo_box) and the mode of an item
\* (on_quick_switch).
ComboItem(mode) == IF mode = "SRU" THEN "SR Ultimate" ELSE "SR 2030"

ModeOfItem(selection) == IF selection = "SR 2030" THEN "SR2030" ELSE "SRU"

\* update_format_label
FormatLabel(mode) == IF mode = "SRU" THEN ".X" ELSE ".CMO"

NoFilter == [ran |-> FALSE, txt |-> <<>>, cat |-> "all",
             sort_mode |-> "ID (up)", region_code |-> None]

\* filter_list from "# Filter units" on: filter, sort, repopulate the list
\* (which drops the selection) and set the count.
FilterPass(S, region_code) ==
    LET txt       == lower(S.ui.search_input)
        cat       == CatLower(S.ui.cat_combo)
        sort_mode == S.ui.sort_combo
        filtered  == SortUnits(FilterUnits(S.units, cat, txt, region_code),
                               sort_mode)
    IN  [S EXCEPT !.ui.unit_list = filtered,
                  !.ui.selected = 0,
                  !.ui.lbl_count = Len(filtered),
                  !.last_filter = [ran |-> TRUE, txt |-> txt, cat |-> cat,
                                   sort_mode |-> sort_mode,
                                   region_code |-> region_code]]

\* filter_list.  answer is what QInputDialog.getText returns if it is
\* shown.  region_combo.setCurrentIndex(0) changes the text to
\* "All Regions", so currentTextChanged runs filter_list again before the
\* return.
filter_list(S, answer) ==
    LET region_filter == S.ui.region_combo
        Reset == FilterPass([S EXCEPT !.ui.region_combo = "All Regions"],
                            None)
    IN  IF IsSeparator(region_filter) THEN Reset
        ELSE IF region_filter = "All Regions" THEN FilterPass(S, None)
        ELSE LET code == RegionEntryCode(RegionsOf(S.current_mode),
                                         region_filter)
             IN  IF code = CUSTOM
                 THEN IF answer.ok /\ answer.text # <<>>
                      THEN FilterPass(S, answer.text)
                      ELSE Reset
                 ELSE FilterPass(S, code)

\* load_data
load_data(S, d, switch_tab, answer) ==
    LET path == get_game_config(S.config, S.current_mode).unit_file
    IN  IF ~FileExists(d, path)
        THEN [S EXCEPT !.ui.tab = IF switch_tab THEN 1 ELSE @]
        ELSE LET T == filter_list(
                          [S EXCEPT !.units =
                                        parse_units_robust(d.files[path])],
                          answer)
             IN  [T EXCEPT !.ui.tab = IF switch_tab THEN 0 ELSE @]

\* refresh_settings_ui
refresh_settings_ui(S) ==
    LET data == get_game_config(S.config, S.ui.rb)
    IN  [S EXCEPT !.ui.path_unit = data.unit_file,
                  !.ui.path_meshes = data.meshes_path,
                  !.ui.path_viewer = data.viewer_path]

\* on_quick_switch, combo_mode holding the item the user activated.
\* update_region_combo leaves region_combo at "All Regions", so the
\* filter_list of load_data shows no dialog.
on_quick_switch(S, d) ==
    LET new_mode == ModeOfItem(S.ui.combo_mode)
    IN  IF new_mode = S.current_mode THEN S
        ELSE load_data(
                 refresh_settings_ui(
                     [S EXCEPT !.current_mode = new_mode,
                               !.config = set_mode(@, new_mode),
                               !.ui.title = new_mode,
                               !.ui.lbl_format = FormatLabel(new_mode),
                               !.ui.region_combo = "All Regions",
                               !.ui.rb = new_mode]),
                 d, FALSE, NoAnswer)

\* ConfigManager.update_game_config
update_game_config(data, mode, unit_file, meshes_path, viewer_path) ==
    IF mode \in DOMAIN data
    THEN [data EXCEPT ![mode] = [unit_file   |-> unit_file,
                                 meshes_path |-> meshes_path,
                                 viewer_path |-> viewer_path]]
    ELSE data

\* sync_combo_box: the dropdown, the format label and the region entries
\* (update_region_combo leaves region_combo at "All Regions").
sync_combo_box(S) ==
    [S EXCEPT !.ui.combo_mode = ComboItem(S.current_mode),
              !.ui.lbl_format = FormatLabel(S.current_mode),
              !.ui.region_combo = "All Regions"]

\* save_and_load.  The window title is not touched.
save_and_load(S, d) ==
    LET ui_mode == S.ui.rb
    IN  load_data(
            sync_combo_box(
                [S EXCEPT !.config =
                              set_mode(
                                  update_game_config(@, ui_mode,
                                                     S.ui.path_unit,
                                                     S.ui.path_meshes,
                                                     S.ui.path_viewer),
                                  ui_mode),
                          !.current_mode = ui_mode]),
            d, TRUE, NoAnswer)

\* on_selection_changed
on_selection_changed(S, d) ==
    IF S.ui.selected = 0 THEN S
    ELSE LET u        == S.ui.unit_list[S.ui.selected]
             mesh_dir == get_game_config(S.config, S.current_mode).meshes_path
             dir      == DirAt(d, mesh_dir)
             probe    == MeshProbe(S.current_mode, mesh_dir, dir, u.picnum)
         IN  [S EXCEPT
                 !.ui.info = [lbl_name    |-> u.name,
                              lbl_id      |-> str(u.id),
                              lbl_class   |-> str(u.unit_class)
                                                \o <<" ", "(">>
                                                \o Title(u.category)
                                                \o <<")">>,
                              lbl_picnum  |-> str(u.picnum),
                              lbl_regions |-> RegionsLabel(u.regions)],
                 !.ui.status_mesh = probe.status,
                 !.ui.lbl_mesh_file = probe.lbl_mesh_file,
                 !.ui.btn_view = probe.btn_view,
                 !.selected_mesh_path = probe.final_path,
                 !.ui.txt_textures =
                     [textures |-> check_textures(dir, u.picnum),
                      shared   |-> SharedMesh(S.units, u.picnum, u.id)]]

\* The window after __init__, for the mode saved in config.json and the
\* disk d.
Constructed(mode, d) ==
    LET S0 == [current_mode |-> mode,
               config |-> set_mode(DEFAULTS, mode),
               units |-> <<>>,
               selected_mesh_path |-> NoPath,
               last_filter |-> NoFilter,
               ui |-> [title |-> mode,
                       tab |-> 0,
                       combo_mode |-> ComboItem(mode),
                       lbl_format |-> FormatLabel(mode),
                       rb |-> mode,
                       path_unit |-> "",
                       path_meshes |-> "",
                       path_viewer |-> "",
                       search_input |-> <<>>,
                       cat_combo |-> "All",
                       sort_combo |-> "ID (up)",
                       region_combo |-> "All Regions",
                       unit_list |-> <<>>,
                       selected |-> 0,
                       lbl_count |-> 0,
                       info |-> [lbl_name |-> Dash, lbl_id |-> Dash,
                                 lbl_class |-> Dash, lbl_picnum |-> Dash,
                                 lbl_regions |-> Dash],
                       status_mesh |-> "Select a unit",
                       lbl_mesh_file |-> Dash,
                       btn_view |-> FALSE,
                       txt_textures |->
                           [textures |-> [kind |-> "", found |-> <<>>],
                            shared   |-> [count |-> 0, listed |-> <<>>]]]]
        S1 == refresh_settings_ui(S0)
    IN  IF FileExists(d, S1.ui.path_unit)
        THEN load_data(S1, d, FALSE, NoAnswer)
        ELSE S1

(***************************************************************************)
(* State                                                                   *)
(***************************************************************************)

VARIABLES
    p_file,     \* the file parse_units_robust is called on
    p_pc,       \* "call", "loop", "done" (returned) or "raised"
    p_pos,      \* the number of lines the reader has consumed
    p_loc,      \* the locals start_parsing and units
    p_rows,     \* history: the rows the reader has yielded
    p_src,      \* history: for each record of units, the line it came from
    p_result,   \* the list returned
    disk,               \* the unit files and meshes directories on disk
    current_mode,       \* self.current_mode
    config,             \* self.config.data
    units,              \* self.units
    selected_mesh_path, \* self.selected_mesh_path
    ui,                 \* the widgets
    last_filter,        \* history: the locals of the last filter pass
    last_op,            \* history: the handler that ran last
    active_viewers,     \* self.active_viewers: the tracked process handles
    lbl_viewers,        \* the count shown by lbl_viewers
    procs,              \* the viewer processes spawned so far
    closed              \* the main window has been closed

pvars == <<p_file, p_pc, p_pos, p_loc, p_rows, p_src, p_result>>

\* The viewers: a handle is the index of its process in procs.
xvars == <<active_viewers, lbl_viewers, procs, closed>>

wvars == <<disk, current_mode, config, units, selected_mesh_path, ui,
           last_filter, last_op, xvars>>

vars == <<pvars, wvars>>

\* The window's state as one value, and the assignment of one.
Self ==
    [current_mode |-> current_mode, config |-> config, units |-> units,
     selected_mesh_path |-> selected_mesh_path, ui |-> ui,
     last_filter |-> last_filter]

Becomes(S) ==
    /\ current_mode' = S.current_mode
    /\ config' = S.config
    /\ units' = S.units
    /\ selected_mesh_path' = S.selected_mesh_path
    /\ ui' = S.ui
    /\ last_filter' = S.last_filter

\* An empty disk.
NoDisk ==
    [files |-> [p \in {} |-> NoFile], dirs |-> [p \in {} |-> DirGone],
     exes |-> {}]

\* The window constructed in mode on the disk d.
WindowOn(mode, d) ==
    LET S == Constructed(mode, d)
    IN  /\ disk = d
        /\ current_mode = S.current_mode
        /\ config = S.config
        /\ units = S.units
        /\ selected_mesh_path = S.selected_mesh_path
        /\ ui = S.ui
        /\ last_filter = S.last_filter
        /\ last_op = "__init__"
        /\ active_viewers = <<>>
        /\ lbl_viewers = 0
        /\ procs = <<>>
        /\ closed = FALSE

\* No parse in progress.
ParseIdle ==
    /\ p_file = NoFile
    /\ p_pc = "done"
    /\ p_pos = 0
    /\ p_loc = [start_parsing |-> FALSE, units |-> <<>>]
    /\ p_rows = <<>>
    /\ p_src = <<>>
    /\ p_result = <<>>

(***************************************************************************)
(* parse_units_robust, statement by statement                              *)
(***************************************************************************)

ParseInit ==
    /\ p_file \in
           {[state |-> s, lines |-> <<>>] : s \in {"missing", "unreadable"}}
           \cup {[state |-> "present", lines |-> f] : f \in Files}
    /\ p_pc = "call"
    /\ p_pos = 0
    /\ p_loc = [start_parsing |-> FALSE, units |-> <<>>]
    /\ p_rows = <<>>
    /\ p_src = <<>>
    /\ p_result = <<>>
    /\ WindowOn("SR2030", NoDisk)

\* if not os.path.exists(filepath): return []
ParseMissing ==
    /\ p_pc = "call"
    /\ p_file.state = "missing"
    /\ p_pc' = "done"
    /\ p_result' = <<>>
    /\ UNCHANGED <<p_file, p_pos, p_loc, p_rows, p_src>>
    /\ UNCHANGED wvars

\* open() raises: the outer except prints and the function returns units.
ParseOpenFails ==
    /\ p_pc = "call"
    /\ p_file.state = "unreadable"
    /\ p_pc' = "done"
    /\ p_result' = p_loc.units
    /\ UNCHANGED <<p_file, p_pos, p_loc, p_rows, p_src>>
    /\ UNCHANGED wvars

\* with open(...) as f: lines = f.readlines(); reader = csv.reader(lines)
ParseOpen ==
    /\ p_pc = "call"
    /\ p_file.state = "present"
    /\ p_pc' = "loop"
    /\ UNCHANGED <<p_file, p_pos, p_loc, p_rows, p_src, p_result>>
    /\ UNCHANGED wvars

\* ParseNextRow without the inner try: a ValueError reaches the outer
\* handler, which ends the loop.
ParseNextRowNoInnerTry ==
    /\ p_pc = "loop"
    /\ p_pos < Len(p_file.lines)
    /\ ~csv_error(p_file.lines[p_pos + 1])
    /\ p_pos' = p_pos + 1
    /\ p_rows' = Append(p_rows, csv_row(p_file.lines[p_pos + 1]))
    /\ LET row == p_rows'[p_pos + 1]
           raises == /\ row # <<>>
                     /\ ~contains(Marker, row[1])
                     /\ p_loc.start_parsing
                     /\ Len(row) >= 4
                     /\ isdigit(strip(row[1]))
                     /\ RowValueError(row)
       IN  IF raises
           THEN /\ p_pc' = "done"
                /\ p_result' = p_loc.units
                /\ UNCHANGED <<p_loc, p_src>>
           ELSE /\ p_loc' = ParseRow(p_loc, row)
                /\ p_src' = IF Len(p_loc'.units) > Len(p_loc.units)
                            THEN Append(p_src, p_pos + 1)
                            ELSE p_src
                /\ UNCHANGED <<p_pc, p_result>>
    /\ UNCHANGED p_file
    /\ UNCHANGED wvars

\* The reader yields the next row and the loop body runs on it.
ParseNextRow ==
    /\ p_pc = "loop"
    /\ p_pos < Len(p_file.lines)
    /\ ~csv_error(p_file.lines[p_pos + 1])
    /\ p_pos' = p_pos + 1
    /\ p_rows' = Append(p_rows, csv_row(p_file.lines[p_pos + 1]))
    /\ p_loc' = ParseRow(p_loc, p_rows'[p_pos + 1])
    /\ p_src' = IF Len(p_loc'.units) > Len(p_loc.units)
                THEN Append(p_src, p_pos + 1)
                ELSE p_src
    /\ UNCHANGED <<p_file, p_pc, p_result>>
    /\ UNCHANGED wvars

\* The reader raises csv.Error: the outer except prints and the function
\* returns the units appended so far.
ParseReaderError ==
    /\ p_pc = "loop"
    /\ p_pos < Len(p_file.lines)
    /\ csv_error(p_file.lines[p_pos + 1])
    /\ p_pc' = "done"
    /\ p_result' = p_loc.units
    /\ UNCHANGED <<p_file, p_pos, p_loc, p_rows, p_src>>
    /\ UNCHANGED wvars

\* The reader is exhausted: return units.
ParseReturn ==
    /\ p_pc = "loop"
    /\ p_pos = Len(p_file.lines)
    /\ p_pc' = "done"
    /\ p_result' = p_loc.units
    /\ UNCHANGED <<p_file, p_pos, p_loc, p_rows, p_src>>
    /\ UNCHANGED wvars

ParseNext ==
    \/ ParseMissing
    \/ ParseOpenFails
    \/ ParseOpen
    \/ ParseNextRow
    \/ ParseReaderError
    \/ ParseReturn

SpecParse == ParseInit /\ [][ParseNext]_vars

(***************************************************************************)
(* The window: one action per signal.  A closed window handles none.       *)
(***************************************************************************)

\* The answers to the Custom Region dialog of a filter_list call in S:
\* the dialog is shown only with the Custom... entry current.
Answers(S) ==
    IF RegionEntryCode(RegionsOf(S.current_mode), S.ui.region_combo) = CUSTOM
    THEN CustomAnswers
    ELSE {NoAnswer}

InitOn(disks) ==
    /\ ParseIdle
    /\ \E d \in disks, mode \in Modes : WindowOn(mode, d)

Init == InitOn(Disks)

\* btn_reload.clicked
Reload ==
    /\ ~closed
    /\ \E answer \in Answers(Self) :
           Becomes(load_data(Self, disk, FALSE, answer))
    /\ last_op' = "load_data"
    /\ UNCHANGED <<disk, pvars, xvars>>

\* search_input.textChanged
SearchTextChanged ==
    /\ ~closed
    /\ \E text \in SearchTexts \ {ui.search_input} :
           LET S == [Self EXCEPT !.ui.search_input = text]
           IN  \E answer \in Answers(S) : Becomes(filter_list(S, answer))
    /\ last_op' = "filter_list"
    /\ UNCHANGED <<disk, pvars, xvars>>

\* cat_combo.currentTextChanged
CatChanged ==
    /\ ~closed
    /\ \E item \in CatItems \ {ui.cat_combo} :
           LET S == [Self EXCEPT !.ui.cat_combo = item]
           IN  \E answer \in Answers(S) : Becomes(filter_list(S, answer))
    /\ last_op' = "filter_list"
    /\ UNCHANGED <<disk, pvars, xvars>>

\* sort_combo.currentTextChanged
SortChanged ==
    /\ ~closed
    /\ \E item \in SortItems \ {ui.sort_combo} :
           LET S == [Self EXCEPT !.ui.sort_combo = item]
           IN  \E answer \in Answers(S) : Becomes(filter_list(S, answer))
    /\ last_op' = "filter_list"
    /\ UNCHANGED <<disk, pvars, xvars>>

\* region_combo.currentTextChanged: the user picks an enabled entry of the
\* current mode's table.
RegionChanged ==
    /\ ~closed
    /\ \E item \in RegionPicks \ {ui.region_combo} :
           /\ \E i \in 1..Len(RegionsOf(current_mode)) :
                  RegionsOf(current_mode)[i][1] = item
           /\ LET S == [Self EXCEPT !.ui.region_combo = item]
              IN  \E answer \in Answers(S) :
                      Becomes(filter_list(S, answer))
    /\ last_op' = "filter_list"
    /\ UNCHANGED <<disk, pvars, xvars>>

\* unit_list.itemSelectionChanged: the user selects another item.
SelectItem ==
    /\ ~closed
    /\ \E i \in (1..Len(ui.unit_list)) \ {ui.selected} :
           Becomes(on_selection_changed([Self EXCEPT !.ui.selected = i],
                                        disk))
    /\ last_op' = "on_selection_changed"
    /\ UNCHANGED <<disk, pvars, xvars>>

\* combo_mode.activated
QuickSwitch ==
    /\ ~closed
    /\ \E item \in {"SR 2030", "SR Ultimate"} :
           /\ Becomes(on_quick_switch([Self EXCEPT !.ui.combo_mode = item],
                                      disk))
           /\ last_op' = IF ModeOfItem(item) # current_mode
                         THEN "on_quick_switch"
                         ELSE "on_quick_switch (same profile)"
    /\ UNCHANGED <<disk, pvars, xvars>>

\* The window: profile switches, reloads, the region filter and the
\* selection, on every disk of Disks.
Next ==
    \/ Reload
    \/ RegionChanged
    \/ SelectItem
    \/ QuickSwitch

Spec == Init /\ [][Next]_vars

\* The list pane: every filter and sort control, on one disk.
FilterDisk ==
    CHOOSE d \in Disks :
        /\ FileExists(d, DEFAULTS["SRU"].unit_file)
        /\ d.dirs[DEFAULTS["SRU"].meshes_path] = DirCmo

InitFilter == InitOn({FilterDisk})

NextFilter ==
    \/ SearchTextChanged
    \/ CatChanged
    \/ SortChanged
    \/ RegionChanged
    \/ QuickSwitch
    \/ Reload

SpecFilter == InitFilter /\ [][NextFilter]_vars

\* bg_mode.buttonClicked: the user clicks a radio button of the Settings
\* tab.
RadioClicked ==
    /\ ~closed
    /\ \E mode \in Modes :
           Becomes(refresh_settings_ui([Self EXCEPT !.ui.rb = mode]))
    /\ last_op' = "refresh_settings_ui"
    /\ UNCHANGED <<disk, pvars, xvars>>

\* browse_unit: the user picks another unit file for the profile being
\* edited.
EditUnitPath ==
    /\ ~closed
    /\ \E f \in (DOMAIN disk.files) \ {ui.path_unit} :
           Becomes([Self EXCEPT !.ui.path_unit = f])
    /\ last_op' = "browse_unit"
    /\ UNCHANGED <<disk, pvars, xvars>>

\* btn_save.clicked
SaveAndLoad ==
    /\ ~closed
    /\ Becomes(save_and_load(Self, disk))
    /\ last_op' = "save_and_load"
    /\ UNCHANGED <<disk, pvars, xvars>>

\* The profiles: quick switch, the Settings tab and reloads, with the SRU
\* unit file present or missing.
ProfileDisks ==
    {d \in Disks : d.dirs[DEFAULTS["SRU"].meshes_path] = DirCmo}

InitProfile == InitOn(ProfileDisks)

NextProfile ==
    \/ QuickSwitch
    \/ Reload
    \/ RadioClicked
    \/ EditUnitPath
    \/ SaveAndLoad

SpecProfile == InitProfile /\ [][NextProfile]_vars

(***************************************************************************)
(* The viewers: launch_viewer, update_viewer_count, close_all_viewers,     *)
(* closeEvent                                                              *)
(*                                                                         *)
(* A process is [state, argv, signalled]: state is "running" or "exited"   *)
(* (what poll() tells), argv the command line it was started with, and     *)
(* signalled records that kill() was called on its handle.                 *)
(***************************************************************************)

\* The number of viewer processes spawned in a run.
MaxViewers == 2

\* The window's own state, which the viewer handlers leave alone.
svars == <<current_mode, config, units, selected_mesh_path, ui, last_filter>>

\* h is one of the tracked handles.
Tracked(viewers, h) == \E i \in 1..Len(viewers) : viewers[i] = h

\* update_viewer_count with every handle kept.
update_viewer_countKeepsAll(viewers, ps) == viewers

\* update_viewer_count: [p for p in self.active_viewers if p.poll() is
\* None]; the label shows the length of the result.
update_viewer_count(viewers, ps) ==
    LET Running(h) == ps[h].state = "running"
    IN  SelectSeq(viewers, Running)

\* Spawn with the earlier viewers killed and dropped before the new one is
\* started.
SpawnReplacing(viewers, ps, argv, outcome) ==
    IF outcome = "raises"
    THEN [active_viewers |-> <<>>,
          procs |-> [h \in 1..Len(ps) |->
                        [ps[h] EXCEPT !.state = "exited",
                                      !.signalled = TRUE]]]
    ELSE LET killed == [h \in 1..Len(ps) |->
                           [ps[h] EXCEPT !.state = "exited",
                                         !.signalled = TRUE]]
             ps2 == Append(killed, [state |-> outcome, argv |-> argv,
                                    signalled |-> FALSE])
         IN  [active_viewers |-> update_viewer_count(<<Len(ps2)>>, ps2),
              procs |-> ps2]

\* The try block of launch_viewer.  outcome is "raises" if Popen raises,
\* else what the new process's poll() tells in update_viewer_count.
Spawn(viewers, ps, argv, outcome) ==
    IF outcome = "raises"
    THEN [active_viewers |-> viewers, procs |-> ps]
    ELSE LET ps2 == Append(ps, [state |-> outcome, argv |-> argv,
                                signalled |-> FALSE])
         IN  [active_viewers |->
                  update_viewer_count(Append(viewers, Len(ps2)), ps2),
              procs |-> ps2]

\* KillLoop with kill() called on the first tracked handle only.
KillLoopFirstOnly(viewers, ps, failed) ==
    [h \in 1..Len(ps) |->
        IF viewers # <<>> /\ viewers[1] = h /\ ps[h].state = "running"
        THEN [ps[h] EXCEPT !.signalled = TRUE,
                           !.state = IF h \in failed THEN "running"
                                     ELSE "exited"]
        ELSE ps[h]]

\* The loop of close_all_viewers and of closeEvent: kill() is called on
\* every tracked process whose poll() is None; for the handles of failed
\* it raises, which the bare except swallows.
KillLoop(viewers, ps, failed) ==
    [h \in 1..Len(ps) |->
        IF Tracked(viewers, h) /\ ps[h].state = "running"
        THEN [ps[h] EXCEPT !.signalled = TRUE,
                           !.state = IF h \in failed THEN "running"
                                     ELSE "exited"]
        ELSE ps[h]]

\* btn_view.clicked, or itemDoubleClicked on the selected item.
LaunchViewer ==
    /\ ~closed
    /\ ui.btn_view \/ ui.selected # 0
    /\ LET viewer == get_game_config(config, current_mode).viewer_path
       IN  IF selected_mesh_path = NoPath
           THEN /\ last_op' = "launch_viewer (no mesh path)"
                /\ UNCHANGED <<active_viewers, lbl_viewers, procs>>
           ELSE IF viewer \notin disk.exes
           THEN /\ last_op' = "launch_viewer (viewer not found)"
                /\ UNCHANGED <<active_viewers, lbl_viewers, procs>>
           ELSE \E outcome \in {"raises", "running", "exited"} :
                    LET r == Spawn(active_viewers, procs,
                                   <<viewer, selected_mesh_path>>, outcome)
                    IN  /\ outcome # "raises" => Len(procs) < MaxViewers
                        /\ procs' = r.procs
                        /\ active_viewers' = r.active_viewers
                        /\ lbl_viewers' =
                               IF outcome = "raises" THEN lbl_viewers
                               ELSE Len(r.active_viewers)
                        /\ last_op' =
                               IF outcome = "raises"
                               THEN "launch_viewer (spawn failed)"
                               ELSE "launch_viewer (spawned)"
    /\ UNCHANGED <<disk, pvars, svars, closed>>

\* viewer_timer.timeout, every 2 seconds
Tick ==
    /\ ~closed
    /\ active_viewers' = update_viewer_count(active_viewers, procs)
    /\ lbl_viewers' = Len(active_viewers')
    /\ last_op' = "update_viewer_count"
    /\ UNCHANGED <<disk, pvars, svars, procs, closed>>

\* A viewer process ends on its own (its user closes it, or it crashes).
ViewerExits ==
    /\ ~closed
    /\ \E h \in 1..Len(procs) :
           /\ procs[h].state = "running"
           /\ procs' = [procs EXCEPT ![h].state = "exited"]
    /\ last_op' = "(a viewer exits)"
    /\ UNCHANGED <<disk, pvars, svars, active_viewers, lbl_viewers, closed>>

\* The handles kill() may raise for.
MayFail == SUBSET {h \in 1..Len(procs) :
                      Tracked(active_viewers, h) /\ procs[h].state = "running"}

\* btn_close_all.clicked
CloseAll ==
    /\ ~closed
    /\ \E failed \in MayFail :
           procs' = KillLoop(active_viewers, procs, failed)
    /\ active_viewers' = update_viewer_count(<<>>, procs')
    /\ lbl_viewers' = Len(active_viewers')
    /\ last_op' = "close_all_viewers"
    /\ UNCHANGED <<disk, pvars, svars, closed>>

\* closeEvent: the main window is closed.
CloseWindow ==
    /\ ~closed
    /\ \E failed \in MayFail :
           procs' = KillLoop(active_viewers, procs, failed)
    /\ closed' = TRUE
    /\ last_op' = "closeEvent"
    /\ UNCHANGED <<disk, pvars, svars, active_viewers, lbl_viewers>>

\* The viewers, on a disk where both profiles have units and meshes and
\* only the SR2030 profile's viewer executable exists.
ViewerDisk ==
    LET d == CHOOSE d \in Disks :
                 /\ FileExists(d, DEFAULTS["SRU"].unit_file)
                 /\ d.dirs[DEFAULTS["SRU"].meshes_path] = DirBoth
    IN  [d EXCEPT !.exes = {DEFAULTS["SR2030"].viewer_path}]

InitViewers == InitOn({ViewerDisk})

NextViewers ==
    \/ SelectItem
    \/ Reload
    \/ LaunchViewer
    \/ ViewerExits
    \/ Tick
    \/ CloseAll
    \/ CloseWindow

SpecViewers == InitViewers /\ [][NextViewers]_vars

\* The timer keeps firing while the window is open.
FairSpecViewers == SpecViewers /\ WF_vars(Tick)


(***************************************************************************)
(* Properties of parse_units_robust (under SpecParse)                      *)
(***************************************************************************)

\* A sentinel marker row: its first field contains &&UNITS.
IsMarkerRow(r) == r # <<>> /\ contains(Marker, r[1])

\* The position of the first marker row among rows, 0 when there is none.
FirstMarkerOf(rows) ==
    LET M == {i \in 1..Len(rows) : IsMarkerRow(rows[i])}
    IN  IF M = {} THEN 0 ELSE CHOOSE i \in M : \A j \in M : i <= j

\* The lines that contributed a record.
SrcLines == {p_src[k] : k \in 1..Len(p_src)}

\* s consists solely of decimal digits.
AllDecimal(s) ==
    /\ s # <<>>
    /\ \A i \in 1..Len(s) :
           s[i] \in {"0", "1", "2", "3", "4", "5", "6", "7", "8", "9"}

\* Row r at position i is a candidate data row, the first marker row being
\* at fm: after the marker, at least 4 fields, first field all decimal
\* digits once trimmed.
CandidateRow(r, i, fm) ==
    /\ fm # 0
    /\ i > fm
    /\ Len(r) >= 4
    /\ AllDecimal(strip(r[1]))

\* field is blank after trimming or converts to an integer.
BlankOrInt(field) == strip(field) = <<>> \/ int_ok(strip(field))

\* A candidate row whose class and picnum fields convert.
QualifyingRow(r, i, fm) ==
    /\ CandidateRow(r, i, fm)
    /\ BlankOrInt(r[3])
    /\ BlankOrInt(r[4])

\* A candidate row with a failing integer conversion.
ConversionFails(r, i, fm) ==
    /\ CandidateRow(r, i, fm)
    /\ ~(BlankOrInt(r[3]) /\ BlankOrInt(r[4]))

\* The rows of the whole file, read or not (a line the reader fails on has
\* no row).
FileRows ==
    [i \in 1..Len(p_file.lines) |->
        IF csv_error(p_file.lines[i]) THEN <<>> ELSE csv_row(p_file.lines[i])]

\* C1: no record comes from a row that precedes the first marker row,
\* whatever the row holds, and a file without a marker row parses to the
\* empty sequence.
C1_NoDataBeforeMarker ==
    LET fm == FirstMarkerOf(p_rows)
    IN  /\ Len(p_src) = Len(p_loc.units)
        /\ \A k \in 1..Len(p_src) : fm # 0 /\ p_src[k] > fm
        /\ (p_pc = "done" /\ FirstMarkerOf(FileRows) = 0) => p_result = <<>>

\* A well-formed data row stands before the marker and only the row after
\* the marker became a record.
C1_Witness ==
    /\ p_pc = "done"
    /\ p_file.lines = <<L_example, L_marker, L_example>>
    /\ p_src = <<3>>
    /\ Len(p_result) = 1

\* C2: a row contributes a record only if it has at least 4 fields and its
\* trimmed first field is all decimal digits; a row read after the marker
\* whose first field is not all digits contributes none.
C2_OnlyDigitRows ==
    /\ \A i \in SrcLines :
           Len(p_rows[i]) >= 4 /\ AllDecimal(strip(p_rows[i][1]))
    /\ \A i \in 1..p_pos :
           (p_rows[i] # <<>> /\ ~AllDecimal(strip(p_rows[i][1])))
               => i \notin SrcLines

\* A comment row, a repeated marker row and a data row follow the marker;
\* only the data row became a record.
C2_Witness ==
    /\ p_pc = "done"
    /\ p_file.lines = <<L_marker, L_comment, L_marker, L_example>>
    /\ p_src = <<4>>

\* The class codes the category rule is evaluated on.
ClassCodes == (0 - 3)..15

\* C3: every record's category is land iff class_code <= 6, air iff
\* 6 < class_code <= 12 and naval otherwise, and the rule is a function of
\* the class code alone.
C3_CategoryRule ==
    /\ \A k \in 1..Len(p_loc.units) :
           LET u == p_loc.units[k]
           IN  /\ u.category \in {"land", "air", "naval"}
               /\ u.category = "land" <=> u.unit_class <= 6
               /\ u.category = "air" <=> (6 < u.unit_class /\ u.unit_class <= 12)
    /\ \A c \in ClassCodes :
           /\ Category(c) = "land" <=> c <= 6
           /\ Category(c) = "air" <=> (6 < c /\ c <= 12)
           /\ Category(c) = "naval" <=> c > 12

\* Records with class codes 6, 13 and a blank (defaulted to 0) class field.
C3_Witness ==
    /\ p_pc = "done"
    /\ p_file.lines = <<L_marker, L_six, L_dup, L_pad>>
    /\ Len(p_result) = 3
    /\ p_result[1].unit_class = 6 /\ p_result[1].category = "land"
    /\ p_result[2].unit_class = 13 /\ p_result[2].category = "naval"
    /\ p_result[3].unit_class = 0 /\ p_result[3].category = "land"

\* C4: the record of a row has id = int(field 0), name = field 1 trimmed,
\* class_code = int(field 2) or 0 if blank, picnum = int(field 3) or 0 if
\* blank, region_codes = field 12 trimmed or "" with fewer than 13 fields;
\* the row 42,TestUnit,3,450,,,,,,,,,G read after the marker yields
\* {42, TestUnit, 3, 450, land, G}.
C4_FieldExtraction ==
    LET fm == FirstMarkerOf(p_rows)
    IN  /\ \A k \in 1..Len(p_src) :
               LET r == p_rows[p_src[k]]
                   u == p_loc.units[k]
               IN  /\ u.id = int(r[1])
                   /\ u.name = strip(r[2])
                   /\ u.unit_class = IF strip(r[3]) = <<>> THEN 0 ELSE int(r[3])
                   /\ u.picnum = IF strip(r[4]) = <<>> THEN 0 ELSE int(r[4])
                   /\ u.regions = IF Len(r) >= 13 THEN strip(r[13]) ELSE <<>>
                   /\ p_file.lines[p_src[k]] = L_example =>
                          u = [id |-> 42,
                               name |-> <<"T", "e", "s", "t", "U", "n", "i", "t">>,
                               unit_class |-> 3, picnum |-> 450,
                               category |-> "land", regions |-> <<"G">>]
                   /\ p_file.lines[p_src[k]] = L_pad =>
                          u = [id |-> 7, name |-> <<"b">>, unit_class |-> 0,
                               picnum |-> 0, category |-> "land",
                               regions |-> <<"*">>]
        /\ \A i \in 1..p_pos :
               (fm # 0 /\ i > fm /\ p_file.lines[i] = L_example)
                   => i \in SrcLines

\* The example row and the padded row were read after the marker.
C4_Witness ==
    /\ p_pc = "done"
    /\ p_file.lines = <<L_marker, L_example, L_pad>>
    /\ Len(p_result) = 2
    /\ p_result[1].picnum = 450
    /\ p_result[2].regions = <<"*">>

\* C5: the records stand in the order of the rows they came from, and every
\* qualifying row the reader yields gives exactly one record, also when two
\* rows carry the same id.
C5_OrderNoDedup ==
    LET fm == FirstMarkerOf(p_rows)
    IN  /\ Len(p_src) = Len(p_loc.units)
        /\ \A k \in 1..(Len(p_src) - 1) : p_src[k] < p_src[k + 1]
        /\ \A k \in 1..Len(p_src) :
               p_loc.units[k].id = int(p_rows[p_src[k]][1])
        /\ \A i \in 1..p_pos :
               QualifyingRow(p_rows[i], i, fm) => i \in SrcLines
        /\ p_pc = "done" => p_result = p_loc.units

\* Two rows with id 42 both became records, in file order.
C5_Witness ==
    /\ p_pc = "done"
    /\ p_file.lines = <<L_marker, L_dup, L_six, L_example>>
    /\ Len(p_result) = 3
    /\ p_result[1].id = 42 /\ p_result[1].unit_class = 13
    /\ p_result[2].id = 6
    /\ p_result[3].id = 42 /\ p_result[3].unit_class = 3

C7_NameNeverEmpty ==
    \A k \in 1..Len(p_loc.units) : strip(p_loc.units[k].name) # <<>>

\* C8 as claimed: every record has picnum >= 0 and id >= 0.
C8_NonNegative ==
    \A k \in 1..Len(p_loc.units) :
        p_loc.units[k].picnum >= 0 /\ p_loc.units[k].id >= 0

(***************************************************************************)
(* Properties of filter_list (under SpecFilter)                            *)
(***************************************************************************)

\* x occurs in s as a run of consecutive characters.
IsSubstring(x, s) ==
    \E i \in 1..(Len(s) - Len(x) + 1) : SubSeq(s, i, i + Len(x) - 1) = x

\* s holds "*" or "@".
IsGlobal(s) == \E i \in 1..Len(s) : s[i] \in {"*", "@"}

\* The region rule: no code (the "all" selection) passes every record, "*"
\* passes the global records, any other code passes the records that hold
\* it and the global ones.
RegionMatch(code, region_codes) ==
    IF code = None THEN TRUE
    ELSE IF code = <<"*">> THEN IsGlobal(region_codes)
    ELSE IsSubstring(code, region_codes) \/ IsGlobal(region_codes)

Listed(u) == \E j \in 1..Len(ui.unit_list) : ui.unit_list[j] = u

\* C9: after a filter pass every listed record passes the region rule for
\* the pass's region code, and with category "All" and an empty search
\* text the listed records are exactly the loaded records that pass it;
\* with "All Regions" current every loaded record is listed.  A record
\* with region codes "*" is listed under the codes "U" and "*", one with
\* "G" under "G" and not under "U".
C9_RegionFilter ==
    LET code == last_filter.region_code
        open == last_filter.cat = "all" /\ last_filter.txt = <<>>
    IN  last_filter.ran =>
            /\ \A j \in 1..Len(ui.unit_list) :
                   /\ \E k \in 1..Len(units) : units[k] = ui.unit_list[j]
                   /\ RegionMatch(code, ui.unit_list[j].regions)
            /\ open =>
                   \A k \in 1..Len(units) :
                       Listed(units[k]) <=> RegionMatch(code, units[k].regions)
            /\ (last_op = "filter_list" /\ ui.region_combo = "All Regions")
                   => code = None
            /\ (open /\ code = None) => Len(ui.unit_list) = Len(units)
            /\ open =>
                   \A k \in 1..Len(units) :
                       /\ (units[k].regions = <<"*">>
                               /\ code \in {<<"U">>, <<"*">>})
                              => Listed(units[k])
                       /\ (units[k].regions = <<"G">> /\ code = <<"G">>)
                              => Listed(units[k])
                       /\ (units[k].regions = <<"G">> /\ code = <<"U">>)
                              => ~Listed(units[k])

\* The code "U" with no other filter: the record with "*" and the one with
\* "gU" are listed, the one with "G" and the one without codes are not.
C9_Witness ==
    /\ last_op = "filter_list"
    /\ ui.region_combo = "U (USA)"
    /\ last_filter.region_code = <<"U">>
    /\ last_filter.cat = "all" /\ last_filter.txt = <<>>
    /\ Len(units) = 4
    /\ Len(ui.unit_list) = 2
    /\ \E k \in 1..4 : units[k].regions = <<"*">> /\ Listed(units[k])
    /\ \E k \in 1..4 : units[k].regions = <<"g", "U">> /\ Listed(units[k])
    /\ \E k \in 1..4 : units[k].regions = <<"G">> /\ ~Listed(units[k])
    /\ \E k \in 1..4 : units[k].regions = <<>> /\ ~Listed(units[k])

(***************************************************************************)
(* Properties of on_selection_changed (under Spec)                         *)
(***************************************************************************)

\* n >= 0 written with at least three digits.
Pad3(n) ==
    IF n < 10 THEN <<"0", "0">> \o str(n)
    ELSE IF n < 100 THEN <<"0">> \o str(n)
    ELSE str(n)

\* The mesh file name of a picnum with an extension.
MeshName(picnum, ext) ==
    <<"U", "N", "I", "T">>
        \o (IF picnum >= 0 THEN Pad3(picnum) ELSE fmt03d(picnum))
        \o ext

\* C10: right after a unit is selected, the status, the resolved path and
\* the launch button are those of probing UNIT<picnum, 3 digits> in the
\* active profile's meshes directory with the primary extension (SRU: .x,
\* SR2030: .cmo) first and the secondary one only if the primary file is
\* absent; the button is enabled iff a path is held.  With only
\* UNIT007.cmo in the directory, picnum 7 is an alternate format under SRU
\* and an exact match under SR2030.
C10_MeshResolution ==
    /\ ui.btn_view <=> selected_mesh_path # NoPath
    /\ (last_op = "on_selection_changed" /\ ui.selected # 0) =>
           LET u         == ui.unit_list[ui.selected]
               mesh_dir  == config[current_mode].meshes_path
               dir       == disk.dirs[mesh_dir]
               files     == IF dir.exists THEN dir.files ELSE {}
               is_sru    == current_mode = "SRU"
               primary   == MeshName(u.picnum,
                                     IF is_sru THEN <<".", "x">>
                                     ELSE <<".", "c", "m", "o">>)
               secondary == MeshName(u.picnum,
                                     IF is_sru THEN <<".", "c", "m", "o">>
                                     ELSE <<".", "x">>)
           IN  /\ primary \in files =>
                      /\ ui.status_mesh = "MESH FOUND"
                      /\ selected_mesh_path = <<mesh_dir, primary>>
                      /\ ui.lbl_mesh_file = primary
                      /\ ui.btn_view
               /\ (primary \notin files /\ secondary \in files) =>
                      /\ ui.status_mesh = "ALT FORMAT FOUND"
                      /\ selected_mesh_path = <<mesh_dir, secondary>>
                      /\ ui.lbl_mesh_file = secondary
                      /\ ui.btn_view
               /\ (primary \notin files /\ secondary \notin files) =>
                      /\ ui.status_mesh = "MESH MISSING"
                      /\ selected_mesh_path = NoPath
                      /\ ~ui.btn_view
               /\ (u.picnum = 7 /\ dir.exists
                       /\ files = {<<"U", "N", "I", "T", "0", "0", "7", ".",
                                     "c", "m", "o">>}) =>
                      /\ selected_mesh_path[2] =
                             <<"U", "N", "I", "T", "0", "0", "7", ".", "c",
                               "m", "o">>
                      /\ is_sru => ui.status_mesh = "ALT FORMAT FOUND"
                      /\ ~is_sru => ui.status_mesh = "MESH FOUND"

\* Under SRU, with only UNIT007.cmo in the meshes directory, the unit with
\* picnum 7 is selected: alternate format, UNIT007.cmo, button enabled.
C10_Witness ==
    /\ last_op = "on_selection_changed"
    /\ current_mode = "SRU"
    /\ disk.dirs[config["SRU"].meshes_path].files = {UNIT007_cmo}
    /\ ui.selected # 0
    /\ ui.unit_list[ui.selected].picnum = 7
    /\ ui.status_mesh = "ALT FORMAT FOUND"
    /\ selected_mesh_path = <<config["SRU"].meshes_path, UNIT007_cmo>>
    /\ ui.btn_view

\* a <= b for two names compared without regard to case.
NameLE(a, b) == ~LexLess(Codes(lower(b)), Codes(lower(a)))

\* C11: after a filter pass the list is ordered by the key of the pass's
\* sort mode: id ascending, id descending, name ascending without regard to
\* case, name descending, (class, name) ascending, picnum ascending.  Under
\* "Name A-Z" a record named "alpha" stands before one named "Bravo".
C11_SortOrder ==
    last_filter.ran =>
        \A j, k \in 1..Len(ui.unit_list) :
            j < k =>
                LET a    == ui.unit_list[j]
                    b    == ui.unit_list[k]
                    mode == last_filter.sort_mode
                IN  /\ mode = "ID (up)" => a.id <= b.id
                    /\ mode = "ID (down)" => a.id >= b.id
                    /\ mode = "Name A-Z" => NameLE(a.name, b.name)
                    /\ mode = "Name Z-A" => NameLE(b.name, a.name)
                    /\ mode = "Class" =>
                           \/ a.unit_class < b.unit_class
                           \/ /\ a.unit_class = b.unit_class
                              /\ NameLE(a.name, b.name)
                    /\ mode = "Picnum" => a.picnum <= b.picnum
                    /\ mode \in SortItems
                    /\ (mode = "Name A-Z"
                            /\ a.name = <<"B", "r", "a", "v", "o">>)
                           => b.name # <<"a", "l", "p", "h", "a">>

\* "Name A-Z" over all four records of the SR2030 file: alpha, b, Bravo,
\* TestUnit, where the file has Bravo before alpha.
C11_Witness ==
    /\ last_op = "filter_list"
    /\ last_filter.sort_mode = "Name A-Z"
    /\ Len(ui.unit_list) = 4
    /\ units[1].name = <<"B", "r", "a", "v", "o">>
    /\ units[2].name = <<"a", "l", "p", "h", "a">>
    /\ ui.unit_list[1].name = <<"a", "l", "p", "h", "a">>
    /\ ui.unit_list[2].name = <<"b">>
    /\ ui.unit_list[3].name = <<"B", "r", "a", "v", "o">>

\* The category and search predicates of a filter pass.
CategoryMatch(cat, u) == cat = "all" \/ u.category = cat

SearchMatch(txt, u) ==
    \/ txt = <<>>
    \/ IsSubstring(txt, lower(u.name))
    \/ IsSubstring(txt, str(u.id))

\* C12: after a filter pass a loaded record is listed iff it passes the
\* category test, the search test (the lower-cased search text is in the
\* lower-cased name or in str(id)) and the region test; every listed
\* record is a loaded record and none is listed twice.
C12_Conjunctive ==
    last_filter.ran =>
        LET Pass(u) == /\ CategoryMatch(last_filter.cat, u)
                       /\ SearchMatch(last_filter.txt, u)
                       /\ RegionMatch(last_filter.region_code, u.regions)
        IN  /\ \A k \in 1..Len(units) : Listed(units[k]) <=> Pass(units[k])
            /\ \A j \in 1..Len(ui.unit_list) :
                   \E k \in 1..Len(units) : units[k] = ui.unit_list[j]
            /\ Len(ui.unit_list)
                   = Cardinality({k \in 1..Len(units) : Pass(units[k])})
            /\ ui.lbl_count = Len(ui.unit_list)
            /\ last_filter.txt = lower(ui.search_input)
            /\ last_filter.cat = CatLower(ui.cat_combo)

\* Category "Land", search text "A", region "G": of the four loaded
\* records only Bravo is listed; alpha passes the search and region tests
\* and fails the category test.
C12_Witness ==
    /\ last_op = "filter_list"
    /\ ui.cat_combo = "Land"
    /\ ui.search_input = <<"A">>
    /\ last_filter.region_code = <<"G">>
    /\ Len(units) = 4
    /\ Len(ui.unit_list) = 1
    /\ ui.unit_list[1].name = <<"B", "r", "a", "v", "o">>
    /\ \E k \in 1..4 :
           /\ units[k].name = <<"a", "l", "p", "h", "a">>
           /\ SearchMatch(last_filter.txt, units[k])
           /\ RegionMatch(last_filter.region_code, units[k].regions)
           /\ ~CategoryMatch(last_filter.cat, units[k])

(***************************************************************************)
(* Properties of check_textures, load_data and the profile (under Spec)    *)
(***************************************************************************)

Letters ==
    {"A", "B", "C", "D", "E", "F", "G", "H", "I", "J", "K", "L", "M", "N",
     "O", "P", "Q", "R", "S", "T", "U", "V", "W", "X", "Y", "Z"}

TextureExts == {<<".", "d", "d", "s">>, <<".", "p", "n", "g">>}

\* The candidate texture names of a picnum: the stem with each extension,
\* and the stem followed by one uppercase letter with each extension.
TextureCandidates(picnum) ==
    {MeshName(picnum, e) : e \in TextureExts}
        \cup {MeshName(picnum, <<l>> \o e) : l \in Letters, e \in TextureExts}

\* C13: right after a unit is selected, the texture report lists, once
\* each, exactly the files of the meshes directory that are among the 54
\* candidate names of the unit's picnum (no name with a lowercase letter or
\* another extension), and with the directory absent it is the not-found
\* message with no matches.
C13_TextureCandidates ==
    (last_op = "on_selection_changed" /\ ui.selected # 0) =>
        LET u     == ui.unit_list[ui.selected]
            dir   == disk.dirs[config[current_mode].meshes_path]
            tex   == ui.txt_textures.textures
            found == {tex.found[i] : i \in 1..Len(tex.found)}
        IN  /\ Cardinality(TextureCandidates(u.picnum)) = 54
            /\ Len(TexturePatterns(u.picnum)) = 54
            /\ {TexturePatterns(u.picnum)[i] : i \in 1..54}
                   = TextureCandidates(u.picnum)
            /\ Cardinality(found) = Len(tex.found)
            /\ dir.exists =>
                   /\ found = dir.files \cap TextureCandidates(u.picnum)
                   /\ tex.kind = IF found # {} THEN "found"
                                 ELSE "no textures"
            /\ ~dir.exists =>
                   /\ tex.kind = "folder not found"
                   /\ found = {}

\* A unit with picnum 7 is selected in a directory that holds UNIT007.dds,
\* UNIT007G.png, UNIT007g.dds and UNIT007.jpg: the first two are reported.
C13_Witness ==
    /\ last_op = "on_selection_changed"
    /\ ui.selected # 0
    /\ ui.unit_list[ui.selected].picnum = 7
    /\ disk.dirs[config[current_mode].meshes_path] = DirBoth
    /\ <<"U", "N", "I", "T", "0", "0", "7", "g", ".", "d", "d", "s">>
           \in DirBoth.files
    /\ <<"U", "N", "I", "T", "0", "0", "7", ".", "j", "p", "g">>
           \in DirBoth.files
    /\ ui.txt_textures.textures.kind = "found"
    /\ ui.txt_textures.textures.found =
           << <<"U", "N", "I", "T", "0", "0", "7", ".", "d", "d", "s">>,
              <<"U", "N", "I", "T", "0", "0", "7", "G", ".", "p", "n", "g">> >>

\* The unit file of the active profile, as the disk holds it.
ActiveUnitFile ==
    LET path == config[current_mode].unit_file
    IN  IF path \in DOMAIN disk.files THEN disk.files[path] ELSE NoFile

\* C14 as claimed: after every reload (Reload button, a quick switch to the
\* other profile, save-and-load) the loaded records are the batch parsed
\* from the active profile's unit file, so none of a previous load or
\* profile remains.
C14_ReplacedWholesale ==
    last_op \in {"load_data", "on_quick_switch", "save_and_load"} =>
        units = parse_units_robust(ActiveUnitFile)

(***************************************************************************)
(* Properties of the viewer handlers (under SpecViewers)                   *)
(***************************************************************************)

C16_KillAllTracked ==
    [][ LET close_all == last_op' = "close_all_viewers"
            close_ev  == last_op' = "closeEvent"
        IN  (close_all \/ close_ev) =>
                /\ Len(procs') = Len(procs)
                /\ \A h \in 1..Len(procs) :
                       IF Tracked(active_viewers, h)
                              /\ procs[h].state = "running"
                       THEN procs'[h].signalled
                       ELSE procs'[h] = procs[h]
                /\ close_all => active_viewers' = <<>> /\ lbl_viewers' = 0
                /\ close_all => ~closed'
                /\ close_ev => active_viewers' = active_viewers /\ closed'
      ]_vars

\* Close All with two running viewers tracked: both were signalled, the
\* kill of the second failed and was swallowed, the list is empty and the
\* count is 0.
C16_Witness ==
    /\ last_op = "close_all_viewers"
    /\ Len(procs) = 2
    /\ procs[1].signalled /\ procs[1].state = "exited"
    /\ procs[2].signalled /\ procs[2].state = "running"
    /\ active_viewers = <<>>
    /\ lbl_viewers = 0

\* C17: every update_viewer_count (timer tick, successful launch, Close
\* All) leaves exactly the handles it found whose process had not exited,
\* in their order, and shows their number; a running process is never
\* dropped by it.  While the window is open, the handle of a process that
\* has exited is eventually dropped.
C17_PollPrunes ==
    /\ [][ LET tick  == last_op' = "update_viewer_count"
               spawn == last_op' = "launch_viewer (spawned)"
               clear == last_op' = "close_all_viewers"
               polled == IF tick THEN active_viewers
                         ELSE IF spawn
                         THEN Append(active_viewers, Len(procs) + 1)
                         ELSE <<>>
               Alive(h) == procs'[h].state = "running"
           IN  (tick \/ spawn \/ clear) =>
                   /\ active_viewers' = SelectSeq(polled, Alive)
                   /\ lbl_viewers' = Len(active_viewers')
                   /\ tick => procs' = procs
         ]_vars
    /\ \A h \in 1..MaxViewers :
           (/\ h <= Len(procs)
            /\ Tracked(active_viewers, h)
            /\ procs[h].state = "exited"
            /\ ~closed)
               ~> (~Tracked(active_viewers, h) \/ closed)

\* A timer tick after the first of two viewers exited on its own: the
\* second handle is left and the count is 1.
C17_Witness ==
    /\ last_op = "update_viewer_count"
    /\ Len(procs) = 2
    /\ procs[1].state = "exited" /\ ~procs[1].signalled
    /\ procs[2].state = "running"
    /\ active_viewers = <<2>>
    /\ lbl_viewers = 1

\* The mesh path on_selection_changed resolves for the selected unit under
\* the active profile.
ResolvedForSelection ==
    LET mesh_dir == config[current_mode].meshes_path
    IN  MeshProbe(current_mode, mesh_dir, DirAt(disk, mesh_dir),
                  ui.unit_list[ui.selected].picnum).final_path

\* C18 as claimed: a spawned viewer is given the mesh path resolved for the
\* unit that is selected, under the active profile; with no unit selected
\* (a reload has refilled the list) no mesh path is held and the launch
\* button is disabled.
C18_LaunchesSelectedMesh ==
    /\ last_op = "launch_viewer (spawned)" =>
           /\ ui.selected # 0
           /\ procs[Len(procs)].argv[2] = ResolvedForSelection
    /\ ui.selected = 0 => (selected_mesh_path = NoPath /\ ~ui.btn_view)

\* C19 as claimed: the active profile is the same everywhere: current_mode
\* equals the mode stored in the configuration, the quick-switch dropdown
\* shows it and the window title names it.
C19_ProfileConsistent ==
    /\ current_mode = config.mode
    /\ ui.combo_mode = ComboItem(current_mode)
    /\ ui.title = current_mode

====
